---- MODULE Spec2Model ----
(***************************************************************************)
(* Detective agency manager (src/main.py): a Flask application over two    *)
(* SQLite tables, users and cases, with Flask-Login sessions.  Every       *)
(* request handler is one action; the race on registration is modelled by  *)
(* a second specification in which the handler's lookup and its commit are *)
(* separate steps.                                                         *)
(***************************************************************************)
EXTENDS Integers, FiniteSets, Sequences, TLC

VARIABLES
    users,      \* table users:  id -> row
    cases,      \* table cases:  id -> row
    session,    \* per browser: the user id held by its session cookie, or NULL
    reqs,       \* registration requests between their lookup and their commit
    last        \* the last request served: handler, response, mail sent, page

vars == <<users, cases, session, reqs, last>>

-----------------------------------------------------------------------------
(* Bounds of the model *)

MaxUserId == 2
MaxCaseId == 1

(* Program constants *)

GUEST_ROLE == 1
DETECTIVE_ROLE == 2
BOSS_ROLE == 3

\* A NULL column, an absent row, and a session without a user id.
NULL == 0

\* Python's None in a string column.
None == "None"

(* Inputs *)

Clients == {"c1", "c2"}
Emails == {"admin@email.com", "alice@x.com"}
Passwords == {"1234"}
LoginPasswords == Passwords \cup {"0000"}
Names == {"Sam"}
LastNames == {"Doe"}
DetectiveIds == {"D-7"}
Titles == {"Case1", "Case2"}
Descriptions == {"desc"}
Contents == {"text"}
RegisterTypes == {"register_guest", "register_detective"}
Requests == {"r1", "r2"}

-----------------------------------------------------------------------------
(* Storage and library helpers *)

\* bcrypt.generate_password_hash / check_password_hash: the hash is not the
\* password, and a check succeeds exactly for the password that was hashed.
generate_password_hash(pw) == [alg |-> "bcrypt", of |-> pw]

check_password_hash(h, pw) == h.alg = "bcrypt" /\ h.of = pw

User(name, last_name, password, email, role, detective_id, approved) ==
    [name |-> name, last_name |-> last_name, password |-> password,
     email |-> email, role |-> role, detective_id |-> detective_id,
     approved |-> approved]

Case(uid, title, description, content) ==
    [uid |-> uid, title |-> title, description |-> description,
     content |-> content]

\* The seeded Boss row (admin@email.com / 1234), created directly in storage.
BossUser ==
    User("Sam", "Doe", generate_password_hash("1234"), "admin@email.com",
         BOSS_ROLE, None, TRUE)

Max(S) == CHOOSE x \in S : \A y \in S : y <= x

Min(S) == CHOOSE x \in S : \A y \in S : x <= y

\* INTEGER PRIMARY KEY on SQLite without AUTOINCREMENT: one more than the
\* largest id in use, so the id of a deleted last row is handed out again.
NewId(table) == IF DOMAIN table = {} THEN 1 ELSE Max(DOMAIN table) + 1

\* db.session.add(row); db.session.commit()
Insert(table, row) ==
    LET id == NewId(table)
    IN  [i \in DOMAIN table \cup {id} |-> IF i = id THEN row ELSE table[i]]

Remove(table, id) == [i \in DOMAIN table \ {id} |-> table[i]]

\* User.query.filter_by(email=email).first(): the first matching row in id
\* order, NULL when there is none.
FirstByEmail(us, email) ==
    LET hits == {i \in DOMAIN us : us[i].email = email}
    IN  IF hits = {} THEN NULL ELSE Min(hits)

\* User.query.filter_by(_id=uid).first() / Case.query.filter_by(_id=cid).first()
FirstById(table, id) == IF id \in DOMAIN table THEN id ELSE NULL

\* load_user: the session's user id resolved against storage on each request;
\* NULL is the anonymous user.
load_user(user_id) == IF user_id \in DOMAIN users THEN user_id ELSE NULL

current_user(c) == load_user(session[c])

is_authenticated(c) == current_user(c) # NULL

\* The relationship declared with cascade='all, delete': the cases go with
\* their user.
CascadeCases(cs, uid) == [i \in {j \in DOMAIN cs : cs[j].uid # uid} |-> cs[i]]

\* relationship('Case', backref='user') without a delete cascade: deleting a
\* user keeps its cases and sets their uid to NULL.
OrphanCases(cs, uid) ==
    [i \in DOMAIN cs |-> IF cs[i].uid = uid THEN [cs[i] EXCEPT !.uid = NULL]
                                            ELSE cs[i]]

\* case.user: the owner row of a case, NULL when uid is NULL or names no row.
CaseUser(cs, cid) ==
    IF cs[cid].uid \in DOMAIN users THEN cs[cid].uid ELSE NULL

Response(op, resp) == [op |-> op, resp |-> resp, mail |-> <<>>, list |-> <<>>]

Idle == [pc |-> "idle", register_type |-> "", email |-> "", password |-> ""]

-----------------------------------------------------------------------------
\* The deployed application: the tables created, the Boss row seeded.
Init ==
    /\ users = <<BossUser>>
    /\ cases = <<>>
    /\ session = [c \in Clients |-> NULL]
    /\ reqs = [r \in Requests |-> Idle]
    /\ last = Response("none", "none")

-----------------------------------------------------------------------------
(* Registration *)

\* The handler without its lookup, as in user_page.
has_email_unchecked(us, email) == FALSE

\* has_email = User.query.filter_by(email=email).first()
has_email(us, email) == FirstByEmail(us, email) # NULL

\* The row each registration handler builds from its form.
NewUser(register_type, name, last_name, email, password, detective_id) ==
    IF register_type = "register_guest"
    THEN User(name, last_name, generate_password_hash(password), email,
              GUEST_ROLE, None, TRUE)
    ELSE User(name, last_name, generate_password_hash(password), email,
              DETECTIVE_ROLE, detective_id, FALSE)

RegisterRedirect(register_type) ==
    IF register_type = "register_guest" THEN "redirect_index"
                                        ELSE "redirect_login_new_user"

\* POST /register_guest and POST /register_detective, served in one piece.
register(register_type, c, email, password) ==
    /\ UNCHANGED <<cases, session, reqs>>
    /\ IF is_authenticated(c)
       THEN /\ last' = Response(register_type, "redirect_index")
            /\ UNCHANGED users
       ELSE IF has_email(users, email)
       THEN /\ last' = Response(register_type, "register_form_error")
            /\ UNCHANGED users
       ELSE /\ NewId(users) <= MaxUserId
            /\ \E name \in Names, last_name \in LastNames, did \in DetectiveIds :
                 users' = Insert(users, NewUser(register_type, name, last_name,
                                                email, password, did))
            /\ last' = Response(register_type, RegisterRedirect(register_type))

register_guest(c, email, password) ==
    register("register_guest", c, email, password)

register_detective(c, email, password) ==
    register("register_detective", c, email, password)

-----------------------------------------------------------------------------
(* Authentication *)

\* POST /login
login(c, email, password) ==
    /\ UNCHANGED <<users, cases, reqs>>
    /\ LET user == FirstByEmail(users, email)
       IN  IF is_authenticated(c)
           THEN /\ last' = Response("login", "redirect_index")
                /\ UNCHANGED session
           ELSE IF user = NULL
           THEN /\ last' = Response("login", "redirect_login")
                /\ UNCHANGED session
           ELSE IF check_password_hash(users[user].password, password)
                   /\ users[user].approved
           THEN /\ session' = [session EXCEPT ![c] = user]
                /\ last' = Response("login", "logged_in")
           ELSE /\ last' = Response("login", "redirect_login")
                /\ UNCHANGED session

\* @login_required: an anonymous request is redirected to the login view.
Unauthorized(op) ==
    /\ last' = Response(op, "redirect_login")
    /\ UNCHANGED <<users, cases, session, reqs>>

\* GET /logout
logout(c) ==
    IF ~is_authenticated(c) THEN Unauthorized("logout")
    ELSE /\ session' = [session EXCEPT ![c] = NULL]
         /\ last' = Response("logout", "redirect_index")
         /\ UNCHANGED <<users, cases, reqs>>

\* Case.query.all()
CaseQueryAll(cs) == cs

\* GET /
index(c) ==
    IF ~is_authenticated(c) THEN Unauthorized("index")
    ELSE /\ last' = [Response("index", "index_page") EXCEPT !.list = CaseQueryAll(cases)]
         /\ UNCHANGED <<users, cases, session, reqs>>

-----------------------------------------------------------------------------
(* User directory *)

\* POST /users/<uid>
user_page(c, uid, name, last_name, email) ==
    IF ~is_authenticated(c) THEN Unauthorized("user_page")
    ELSE /\ UNCHANGED <<cases, session, reqs>>
         /\ LET user == FirstById(users, uid)
            IN  IF user = NULL
                THEN \* user.name on None raises AttributeError
                     /\ last' = Response("user_page", "error_500")
                     /\ UNCHANGED users
                ELSE /\ users' = [users EXCEPT ![user].name = name,
                                               ![user].last_name = last_name,
                                               ![user].email = email]
                     /\ last' = Response("user_page", "redirect_user_page")

\* POST /users/delete/<uid>
delete_user(c, uid) ==
    IF ~is_authenticated(c) THEN Unauthorized("delete_user")
    ELSE /\ UNCHANGED <<session, reqs>>
         /\ IF users[current_user(c)].role # BOSS_ROLE
            THEN /\ last' = Response("delete_user", "redirect_index")
                 /\ UNCHANGED <<users, cases>>
            ELSE LET user == FirstById(users, uid)
                 IN  IF user # NULL
                     THEN /\ users' = Remove(users, user)
                          /\ cases' = OrphanCases(cases, user)
                          /\ last' = Response("delete_user", "redirect_users")
                     ELSE /\ last' = Response("delete_user", "redirect_index")
                          /\ UNCHANGED <<users, cases>>

\* msg.send() inside try/except; sendOk is whether it goes through.
Send(sendOk) == <<IF sendOk THEN "sent" ELSE "failed">>

\* The same handler with the send outside any try: a failed send ends the
\* request before the commit.
approve_unguarded_send(c, uid, sendOk) ==
    IF ~is_authenticated(c) THEN Unauthorized("approve")
    ELSE /\ UNCHANGED <<cases, session, reqs>>
         /\ IF users[current_user(c)].role # BOSS_ROLE
            THEN /\ last' = Response("approve", "redirect_index")
                 /\ UNCHANGED users
            ELSE LET user == FirstById(users, uid)
                 IN  IF user # NULL /\ sendOk
                     THEN /\ users' = [users EXCEPT ![user].approved = TRUE]
                          /\ last' = [Response("approve", "redirect_approvals")
                                        EXCEPT !.mail = Send(sendOk)]
                     ELSE IF user # NULL
                     THEN /\ last' = [Response("approve", "error_500")
                                        EXCEPT !.mail = Send(sendOk)]
                          /\ UNCHANGED users
                     ELSE /\ last' = Response("approve", "redirect_index")
                          /\ UNCHANGED users

\* POST /users/<uid>/approved
approve(c, uid, sendOk) ==
    IF ~is_authenticated(c) THEN Unauthorized("approve")
    ELSE /\ UNCHANGED <<cases, session, reqs>>
         /\ IF users[current_user(c)].role # BOSS_ROLE
            THEN /\ last' = Response("approve", "redirect_index")
                 /\ UNCHANGED users
            ELSE LET user == FirstById(users, uid)
                 IN  IF user # NULL
                     THEN /\ users' = [users EXCEPT ![user].approved = TRUE]
                          /\ last' = [Response("approve", "redirect_approvals")
                                        EXCEPT !.mail = Send(sendOk)]
                     ELSE /\ last' = Response("approve", "redirect_index")
                          /\ UNCHANGED users

-----------------------------------------------------------------------------
(* Case directory *)

\* The role test written as "role in [GUEST_ROLE, DETECTIVE_ROLE, BOSS_ROLE]".
CanManageCasesAnyRole(role) == role \in {GUEST_ROLE, DETECTIVE_ROLE, BOSS_ROLE}

\* current_user.role in [DETECTIVE_ROLE, BOSS_ROLE]
CanManageCases(role) == role \in {DETECTIVE_ROLE, BOSS_ROLE}

\* POST /case/new
new_case(c, title, description, content) ==
    IF ~is_authenticated(c) THEN Unauthorized("new_case")
    ELSE /\ UNCHANGED <<users, session, reqs>>
         /\ IF ~CanManageCases(users[current_user(c)].role)
            THEN /\ last' = Response("new_case", "redirect_index")
                 /\ UNCHANGED cases
            ELSE /\ NewId(cases) <= MaxCaseId
                 /\ cases' = Insert(cases, Case(current_user(c), title,
                                                description, content))
                 /\ last' = Response("new_case", "case_created")

\* POST /case/<cid>
case_page(c, cid, title, description, content) ==
    IF ~is_authenticated(c) THEN Unauthorized("case_page")
    ELSE /\ UNCHANGED <<users, session, reqs>>
         /\ LET case == FirstById(cases, cid)
            IN  IF case = NULL
                THEN \* case.title on None raises AttributeError
                     /\ last' = Response("case_page", "error_500")
                     /\ UNCHANGED cases
                ELSE /\ cases' = [cases EXCEPT ![case].title = title,
                                               ![case].description = description,
                                               ![case].content = content]
                     /\ last' = Response("case_page", "redirect_case_page")

\* (current_user.role == BOSS_ROLE or current_user == case_to_delete.user)
\* for a case that exists.
MayDeleteCase(actor, cid) ==
    \/ users[actor].role = BOSS_ROLE
    \/ actor = CaseUser(cases, cid)

\* POST /case/delete/<cid>
delete_case(c, cid) ==
    IF ~is_authenticated(c) THEN Unauthorized("delete_case")
    ELSE /\ UNCHANGED <<users, session, reqs>>
         /\ LET case_to_delete == FirstById(cases, cid)
                actor == current_user(c)
            IN  IF case_to_delete = NULL
                THEN IF users[actor].role = BOSS_ROLE
                     THEN \* "... and case_to_delete" is falsy
                          /\ last' = Response("delete_case", "redirect_index")
                          /\ UNCHANGED cases
                     ELSE \* case_to_delete.user on None raises AttributeError
                          /\ last' = Response("delete_case", "error_500")
                          /\ UNCHANGED cases
                ELSE IF MayDeleteCase(actor, case_to_delete)
                THEN /\ cases' = Remove(cases, case_to_delete)
                     /\ last' = Response("delete_case", "case_deleted")
                ELSE /\ last' = Response("delete_case", "redirect_index")
                     /\ UNCHANGED cases

-----------------------------------------------------------------------------
(* Requests served one at a time *)

UserIds == 1..(MaxUserId + 1)
CaseIds == 1..(MaxCaseId + 1)

Next ==
    \/ \E c \in Clients, e \in Emails, p \in Passwords : register_guest(c, e, p)
    \/ \E c \in Clients, e \in Emails, p \in Passwords : register_detective(c, e, p)
    \/ \E c \in Clients, e \in Emails, p \in LoginPasswords : login(c, e, p)
    \/ \E c \in Clients : logout(c)
    \/ \E c \in Clients : index(c)
    \/ \E c \in Clients, uid \in UserIds, n \in Names, l \in LastNames,
          e \in Emails : user_page(c, uid, n, l, e)
    \/ \E c \in Clients, uid \in UserIds : delete_user(c, uid)
    \/ \E c \in Clients, uid \in UserIds, sendOk \in BOOLEAN :
          approve(c, uid, sendOk)

\* The user side of the application: registration, sessions, the user
\* directory.  No case is created.
Spec == Init /\ [][Next]_vars

-----------------------------------------------------------------------------
(* The case directory, on a populated users table *)

\* A users table that registrations leave behind: the Boss, a Detective
\* awaiting approval and a Guest.
Population ==
    <<BossUser,
      NewUser("register_detective", "Sam", "Doe", "alice@x.com", "1234", "D-7"),
      NewUser("register_guest", "Sam", "Doe", "bob@x.com", "1234", "D-7")>>

InitCases ==
    /\ users = Population
    /\ cases = <<>>
    /\ session = [c \in Clients |-> NULL]
    /\ reqs = [r \in Requests |-> Idle]
    /\ last = Response("none", "none")

PopulationIds == 1..(Len(Population) + 1)

\* The profile form posted back with its address as stored.
KeptEmail(uid) == IF uid \in DOMAIN users THEN users[uid].email ELSE "alice@x.com"

NextCases ==
    \/ \E c \in Clients, i \in DOMAIN Population, p \in LoginPasswords :
          login(c, Population[i].email, p)
    \/ \E c \in Clients : logout(c)
    \/ \E c \in Clients : index(c)
    \/ \E c \in Clients, uid \in PopulationIds, n \in Names, l \in LastNames :
          user_page(c, uid, n, l, KeptEmail(uid))
    \/ \E c \in Clients, uid \in PopulationIds : delete_user(c, uid)
    \/ \E c \in Clients, uid \in PopulationIds, sendOk \in BOOLEAN :
          approve(c, uid, sendOk)
    \/ \E c \in Clients, t \in Titles, d \in Descriptions, x \in Contents :
          new_case(c, t, d, x)
    \/ \E c \in Clients, cid \in CaseIds, t \in Titles, d \in Descriptions,
          x \in Contents : case_page(c, cid, t, d, x)
    \/ \E c \in Clients, cid \in CaseIds : delete_case(c, cid)

SpecCases == InitCases /\ [][NextCases]_vars

-----------------------------------------------------------------------------
(* Registration requests served concurrently *)

\* Lines 123-128 and 151-156 of a registration request from a client without
\* a session: the form is read and the table is searched for the address.
RegLookup(r, register_type, email, password) ==
    /\ reqs[r].pc = "idle"
    /\ UNCHANGED <<users, cases, session>>
    /\ IF has_email(users, email)
       THEN /\ last' = Response(register_type, "register_form_error")
            /\ UNCHANGED reqs
       ELSE /\ reqs' = [reqs EXCEPT ![r] = [pc |-> "checked",
                                            register_type |-> register_type,
                                            email |-> email,
                                            password |-> password]]
            /\ UNCHANGED last

\* The commit against a users table with a UNIQUE constraint on email: a
\* second row with a stored address is rejected.
RegCommitUnique(r) ==
    /\ reqs[r].pc = "checked"
    /\ NewId(users) <= MaxUserId
    /\ IF has_email(users, reqs[r].email)
       THEN /\ last' = Response(reqs[r].register_type, "error_500")
            /\ UNCHANGED users
       ELSE /\ \E name \in Names, last_name \in LastNames, did \in DetectiveIds :
                 users' = Insert(users, NewUser(reqs[r].register_type, name,
                                                last_name, reqs[r].email,
                                                reqs[r].password, did))
            /\ last' = Response(reqs[r].register_type,
                                RegisterRedirect(reqs[r].register_type))
    /\ reqs' = [reqs EXCEPT ![r] = Idle]
    /\ UNCHANGED <<cases, session>>

\* Lines 130-134 and 159-163: the row is built, added and committed.
RegCommit(r) ==
    /\ reqs[r].pc = "checked"
    /\ NewId(users) <= MaxUserId
    /\ \E name \in Names, last_name \in LastNames, did \in DetectiveIds :
         users' = Insert(users, NewUser(reqs[r].register_type, name, last_name,
                                        reqs[r].email, reqs[r].password, did))
    /\ reqs' = [reqs EXCEPT ![r] = Idle]
    /\ last' = Response(reqs[r].register_type,
                        RegisterRedirect(reqs[r].register_type))
    /\ UNCHANGED <<cases, session>>

\* db.create_all() leaves both tables empty; the Boss row may have been seeded.
InitRace ==
    /\ users \in {<<>>, <<BossUser>>}
    /\ cases = <<>>
    /\ session = [c \in Clients |-> NULL]
    /\ reqs = [r \in Requests |-> Idle]
    /\ last = Response("none", "none")

NextRace ==
    \/ \E r \in Requests, t \in RegisterTypes, e \in Emails, p \in Passwords :
          RegLookup(r, t, e, p)
    \/ \E r \in Requests : RegCommit(r)

SpecRace == InitRace /\ [][NextRace]_vars

-----------------------------------------------------------------------------
(* Properties *)

Role(c) == users[current_user(c)].role

\* The step is the serving of a request by handler op.
Served(op) == last'.op = op

EmailUnique(us) ==
    \A i, j \in DOMAIN us : us[i].email = us[j].email => i = j

Redirects ==
    {"redirect_index", "redirect_users", "redirect_approvals",
     "redirect_login", "redirect_user_page", "redirect_case_page"}

\* A row of a Detective that the step leaves approved and did not find so.
BecomesApproved(id) ==
    /\ id \in DOMAIN users'
    /\ users'[id].role = DETECTIVE_ROLE
    /\ users'[id].approved
    /\ ~(id \in DOMAIN users /\ users[id].approved)

\* C1 (first half): a login binds a session to a Detective row only if the row
\* is approved, and a Detective row becomes approved only by the approve
\* request of an actor whose role is Boss.
C1_NoSessionBeforeApproval ==
    [][/\ Served("login") => \A c \in Clients, e \in Emails, p \in LoginPasswords :
            (/\ login(c, e, p)
             /\ session'[c] # session[c]
             /\ users[session'[c]].role = DETECTIVE_ROLE)
            => users[session'[c]].approved
       /\ \A id \in UserIds :
            BecomesApproved(id)
            => \E c \in Clients, sendOk \in BOOLEAN :
                 /\ approve(c, id, sendOk)
                 /\ is_authenticated(c)
                 /\ Role(c) = BOSS_ROLE]_vars

\* C1: no login binds a session to a user registered as Detective before a
\* Boss has approved that user's id, and once a Boss has, a login from a
\* client without a session, with that user's email and password, binds the
\* client's session to that user.
C1_ApprovalGatesLogin ==
    [][/\ Served("login") => \A c \in Clients, e \in Emails, p \in LoginPasswords :
            (/\ login(c, e, p)
             /\ session'[c] # session[c]
             /\ users[session'[c]].role = DETECTIVE_ROLE)
            => users[session'[c]].approved
       /\ \A id \in UserIds :
            BecomesApproved(id)
            => \E c \in Clients, sendOk \in BOOLEAN :
                 /\ approve(c, id, sendOk)
                 /\ is_authenticated(c)
                 /\ Role(c) = BOSS_ROLE
       /\ Served("login") => \A c \in Clients, p \in LoginPasswords, u \in DOMAIN users :
            (/\ login(c, users[u].email, p)
             /\ ~is_authenticated(c)
             /\ users[u].role = DETECTIVE_ROLE
             /\ users[u].approved
             /\ check_password_hash(users[u].password, p))
            => session'[c] = u]_vars

\* C2: no two rows of the users table hold the same email.
C2_EmailUnique == EmailUnique(users)

\* C3: a delete_user or delete_case request of an authenticated actor for an
\* id that is not stored ends in a redirect and leaves both tables as they
\* were; it never ends in an unhandled error.
C3_DeleteMissingIsRedirect ==
    [][/\ Served("delete_user") => \A c \in Clients, uid \in PopulationIds :
            (delete_user(c, uid) /\ is_authenticated(c) /\ uid \notin DOMAIN users)
            => last'.resp \in Redirects /\ users' = users /\ cases' = cases
       /\ Served("delete_case") => \A c \in Clients, cid \in CaseIds :
            (delete_case(c, cid) /\ is_authenticated(c) /\ cid \notin DOMAIN cases)
            => last'.resp \in Redirects /\ users' = users /\ cases' = cases
      ]_vars

\* C4 as claimed: every registration request whose email is already stored
\* gets the registration form with the duplicate-email error and leaves the
\* users table unchanged.
C4_DuplicateEmailAlwaysForm ==
    [][\A t \in RegisterTypes : Served(t) =>
         \A c \in Clients, e \in Emails, p \in Passwords :
         (register(t, c, e, p) /\ (\E i \in DOMAIN users : users[i].email = e))
         => last'.resp = "register_form_error" /\ users' = users]_vars

\* C4 as amended: a registration request from a client without an
\* authenticated session whose email is already stored gets the registration
\* form with the duplicate-email error and leaves the users table unchanged.
C4_DuplicateEmailForm ==
    [][\A t \in RegisterTypes : Served(t) =>
         \A c \in Clients, e \in Emails, p \in Passwords :
         (/\ register(t, c, e, p)
          /\ ~is_authenticated(c)
          /\ \E i \in DOMAIN users : users[i].email = e)
         => last'.resp = "register_form_error" /\ users' = users]_vars

\* A registration was answered with the duplicate-email form while the
\* address is stored.
C4_Witness ==
    /\ last.op \in RegisterTypes
    /\ last.resp = "register_form_error"
    /\ \E i \in DOMAIN users : users[i].role # BOSS_ROLE

\* C5: the role matrix.  For an authenticated actor: new_case stores a case
\* owned by the actor iff the actor is Detective or Boss; delete_case removes
\* a stored case iff the actor is Boss or the case's owner; approve sets
\* approved and delete_user removes the row of a stored user iff the actor is
\* Boss; every denied request redirects home and changes neither table.
C5_RoleMatrix ==
    [][/\ Served("new_case") =>
          \A c \in Clients, t \in Titles, d \in Descriptions, x \in Contents :
            (new_case(c, t, d, x) /\ is_authenticated(c))
            => IF Role(c) \in {DETECTIVE_ROLE, BOSS_ROLE}
               THEN /\ users' = users
                    /\ \E cid \in DOMAIN cases' \ DOMAIN cases :
                         /\ cases'[cid] = Case(current_user(c), t, d, x)
                         /\ \A k \in DOMAIN cases : cases'[k] = cases[k]
               ELSE /\ last'.resp = "redirect_index"
                    /\ users' = users /\ cases' = cases
       /\ Served("delete_case") => \A c \in Clients, cid \in DOMAIN cases :
            (delete_case(c, cid) /\ is_authenticated(c))
            => IF Role(c) = BOSS_ROLE \/ cases[cid].uid = current_user(c)
               THEN cases' = Remove(cases, cid) /\ users' = users
               ELSE /\ last'.resp = "redirect_index"
                    /\ users' = users /\ cases' = cases
       /\ Served("approve") =>
          \A c \in Clients, uid \in DOMAIN users, sendOk \in BOOLEAN :
            (approve(c, uid, sendOk) /\ is_authenticated(c))
            => IF Role(c) = BOSS_ROLE
               THEN users'[uid].approved
               ELSE /\ last'.resp = "redirect_index"
                    /\ users' = users /\ cases' = cases
       /\ Served("delete_user") => \A c \in Clients, uid \in DOMAIN users :
            (delete_user(c, uid) /\ is_authenticated(c))
            => IF Role(c) = BOSS_ROLE
               THEN uid \notin DOMAIN users'
               ELSE /\ last'.resp = "redirect_index"
                    /\ users' = users /\ cases' = cases
      ]_vars

\* A Guest is logged in, its new_case request was turned away, and a case of
\* the Detective is stored.
C5_Witness ==
    /\ last = Response("new_case", "redirect_index")
    /\ \E c \in Clients : is_authenticated(c) /\ Role(c) = GUEST_ROLE
    /\ \E cid \in DOMAIN cases :
         /\ cases[cid].uid \in DOMAIN users
         /\ users[cases[cid].uid].role = DETECTIVE_ROLE

\* C6: an approve request of a Boss for a stored user attempts exactly one
\* send, and whether the send goes through or fails the request ends with
\* that user's approved flag stored as true.
C6_ApproveSurvivesSendFailure ==
    [][Served("approve") =>
       \A c \in Clients, uid \in DOMAIN users, sendOk \in BOOLEAN :
         (/\ approve(c, uid, sendOk)
          /\ is_authenticated(c)
          /\ Role(c) = BOSS_ROLE)
         => /\ Len(last'.mail) = 1
            /\ last'.resp = "redirect_approvals"
            /\ uid \in DOMAIN users'
            /\ users'[uid].approved]_vars

\* An approve request whose send failed has left a Detective approved.
C6_Witness ==
    /\ last.op = "approve"
    /\ last.mail = <<"failed">>
    /\ \E i \in DOMAIN users :
         users[i].role = DETECTIVE_ROLE /\ users[i].approved

\* C7: when a Boss deletes a user, every case that user created stays in the
\* cases table with its title, description and content as they were, and is
\* in the list the home page shows.
C7_CasesSurviveOwnerDelete ==
    [][Served("delete_user") => \A c \in Clients, uid \in DOMAIN users :
         (/\ delete_user(c, uid)
          /\ is_authenticated(c)
          /\ Role(c) = BOSS_ROLE)
         => \A cid \in DOMAIN cases :
              (cases[cid].uid = uid)
              => /\ cid \in DOMAIN cases'
                 /\ cases'[cid].title = cases[cid].title
                 /\ cases'[cid].description = cases[cid].description
                 /\ cases'[cid].content = cases[cid].content
                 /\ cid \in DOMAIN CaseQueryAll(cases')]_vars

\* A user was deleted and a case it owned is stored without an owner.
C7_Witness ==
    /\ last = Response("delete_user", "redirect_users")
    /\ \E cid \in DOMAIN cases : cases[cid].uid = NULL

\* C8: a session that names a user id whose row is gone stays anonymous for
\* as long as the session itself is not renewed by a login.
C8_StaleSessionStaysAnonymous ==
    [][\A c \in Clients :
         (/\ session[c] # NULL
          /\ ~is_authenticated(c)
          /\ session'[c] = session[c])
         => session'[c] \notin DOMAIN users']_vars

\* C9: a user_page or case_page POST of an authenticated actor for an id
\* that is not stored redirects to the home page and leaves both tables as
\* they were.
C9_EditMissingIsRedirect ==
    [][/\ Served("user_page") =>
          \A c \in Clients, uid \in PopulationIds, n \in Names, l \in LastNames :
            (/\ user_page(c, uid, n, l, KeptEmail(uid))
             /\ is_authenticated(c)
             /\ uid \notin DOMAIN users)
            => /\ last'.resp = "redirect_index"
               /\ users' = users /\ cases' = cases
       /\ Served("case_page") =>
          \A c \in Clients, cid \in CaseIds, t \in Titles, d \in Descriptions,
             x \in Contents :
            (/\ case_page(c, cid, t, d, x)
             /\ is_authenticated(c)
             /\ cid \notin DOMAIN cases)
            => /\ last'.resp = "redirect_index"
               /\ users' = users /\ cases' = cases
      ]_vars

\* C10: nothing but the lookup guards the address.  A registration that has
\* passed its lookup commits its row whatever the table holds by then: if a
\* concurrent request has stored the same address in between, the commit
\* still adds a row, and two rows share one email.
C10_CommitIgnoresStoredEmail ==
    [][\A r \in Requests :
         (RegCommit(r) /\ (\E i \in DOMAIN users : users[i].email = reqs[r].email))
         => /\ Cardinality(DOMAIN users') = Cardinality(DOMAIN users) + 1
            /\ ~EmailUnique(users')]_vars

\* Both requests passed the lookup, both committed: two rows, one email.
C10_Witness ==
    /\ \A r \in Requests : reqs[r].pc = "idle"
    /\ last.resp \in {"redirect_index", "redirect_login_new_user"}
    /\ \E i, j \in DOMAIN users :
         /\ i # j
         /\ users[i].email = users[j].email
         /\ users[i].role # BOSS_ROLE
         /\ users[j].role # BOSS_ROLE

====
